---- MODULE Spec2Model ----
(***************************************************************************)
(* Medical amount detection: the document pipeline (DocumentProcessor),   *)
(* the guardrails orchestrator with its shipped validators, and the       *)
(* classification engine with its AI retry loop and rule-based fallback.  *)
(*                                                                         *)
(* Units.  Money is counted in cents (100.00 is 10000).  Confidences of   *)
(* tokens, amounts and classifications are counted in thousandths (0.95   *)
(* is 950).  Confidences of guardrail results are counted in 1/600        *)
(* (1.0 is 600), so that the average over two or three gates is exact.    *)
(***************************************************************************)
EXTENDS Integers, Sequences, FiniteSets, TLC

(***************************************************************************)
(* Generic helpers over sequences.                                         *)
(***************************************************************************)
RECURSIVE FlatMapViolations(_)
FlatMapViolations(results) ==
  IF results = <<>> THEN <<>>
  ELSE Head(results).violations \o FlatMapViolations(Tail(results))

RECURSIVE SumSeq(_)
SumSeq(s) == IF s = <<>> THEN 0 ELSE Head(s) + SumSeq(Tail(s))

Range(s) == { s[i] : i \in 1..Len(s) }

Min2(a, b) == IF a <= b THEN a ELSE b
Max2(a, b) == IF a >= b THEN a ELSE b
Abs(x) == IF x < 0 THEN -x ELSE x

(***************************************************************************)
(* Enumerations of the type module.                                        *)
(***************************************************************************)
RiskLevel == {"low", "medium", "high", "critical"}
ViolationSeverity == {"warning", "error", "critical"}
GuardrailAction == {"proceed", "proceed_with_caution", "manual_review", "reject"}
ProcessingStatus == {"ok", "partial", "error", "no_amounts_found"}
AmountType == {"total_bill", "paid", "due", "discount", "tax", "copay",
               "deductible", "insurance_coverage", "other"}
Currency == {"USD", "INR", "EUR", "GBP", "CAD"}

\* 1.0 on the scale of guardrail confidences.
GuardrailOne == 600

Violation(rule, severity) == [rule |-> rule, severity |-> severity]

IsBlocking(v) == v.severity = "critical" \/ v.severity = "error"

IsCritical(v) == v.severity = "critical"

PassedOfCriticalOnly(violations) == SelectSeq(violations, IsCritical) = <<>>

\* passed: no violation of severity CRITICAL or ERROR.
PassedOf(violations) == SelectSeq(violations, IsBlocking) = <<>>

(***************************************************************************)
(* GuardrailsService: risk ordering, confidence, action.                   *)
(***************************************************************************)
riskOrder(level) ==
  CASE level = "low" -> 0
    [] level = "medium" -> 1
    [] level = "high" -> 2
    [] level = "critical" -> 3

getHigherRiskLevelLower(level1, level2) ==
  IF riskOrder(level1) <= riskOrder(level2) THEN level1 ELSE level2

getHigherRiskLevel(level1, level2) ==
  IF riskOrder(level1) >= riskOrder(level2) THEN level1 ELSE level2

severityPenalty(v) ==
  CASE v.severity = "critical" -> 300
    [] v.severity = "error" -> 180
    [] v.severity = "warning" -> 60

RECURSIVE penaltySum(_)
penaltySum(violations) ==
  IF violations = <<>> THEN 0
  ELSE severityPenalty(Head(violations)) + penaltySum(Tail(violations))

calculateConfidence(violations) == Max2(0, GuardrailOne - penaltySum(violations))

hasSeverity(violations, sev) == \E i \in 1..Len(violations) : violations[i].severity = sev

determineActionNoReview(riskLevel, violations) ==
  IF hasSeverity(violations, "critical") THEN "reject"
  ELSE IF riskLevel = "high" \/ (hasSeverity(violations, "error") /\ riskLevel = "medium")
       THEN "proceed_with_caution"
  ELSE "proceed"

\* determineAction without the clause for errors at MEDIUM risk.
determineActionHighOnly(riskLevel, violations) ==
  LET hasCritical == hasSeverity(violations, "critical")
      hasErrors == hasSeverity(violations, "error")
  IN  IF hasCritical THEN "reject"
      ELSE IF hasErrors /\ riskLevel = "high" THEN "manual_review"
      ELSE IF riskLevel = "high" THEN "proceed_with_caution"
      ELSE "proceed"

determineAction(riskLevel, violations) ==
  LET hasCritical == hasSeverity(violations, "critical")
      hasErrors == hasSeverity(violations, "error")
  IN  IF hasCritical THEN "reject"
      ELSE IF hasErrors /\ riskLevel = "high" THEN "manual_review"
      ELSE IF riskLevel = "high" \/ (hasErrors /\ riskLevel = "medium")
           THEN "proceed_with_caution"
      ELSE "proceed"

\* The object every gate of GuardrailsService returns.
GateResult(riskLevel, violations) ==
  [passed |-> PassedOf(violations),
   riskLevel |-> riskLevel,
   violations |-> violations,
   confidence |-> calculateConfidence(violations),
   recommendedAction |-> determineAction(riskLevel, violations)]

\* The object a sub-validator returns: it reports its own confidence and action.
SubResult(passed, riskLevel, violations, confidence, action) ==
  [passed |-> passed,
   riskLevel |-> riskLevel,
   violations |-> violations,
   confidence |-> confidence,
   recommendedAction |-> action]

\* riskLevel = LOW, then getHigherRiskLevel with each sub-result in turn.
RECURSIVE foldRisk(_, _)
foldRisk(level, results) ==
  IF results = <<>> THEN level
  ELSE foldRisk(getHigherRiskLevel(level, Head(results).riskLevel), Tail(results))

(***************************************************************************)
(* Inputs.  A text is described by what the validators and extractors read *)
(* from it: its length class, the screening phrases it contains, and the  *)
(* amounts it mentions, in reading order.                                  *)
(***************************************************************************)
TextLengths == {"empty", "normal", "too_long"}

\* Phrases a text may contain, as literal snippets.
Phrases == {"ignore previous instructions", "ignore  previous  instructions",
            "system: you are", "<script", "javascript:", "eval (",
            "pretend you are", "jailbreak", "override your programming"}

\* Which literal snippets each regular expression of detectSuspiciousPatterns matches.
InputPatterns ==
  << [name |-> "prompt_injection",
      matches |-> {"ignore previous instructions", "ignore  previous  instructions"}],
     [name |-> "system_prompt", matches |-> {"system: you are"}],
     [name |-> "script_tag", matches |-> {"<script"}],
     [name |-> "javascript_protocol", matches |-> {"javascript:"}],
     [name |-> "eval_function", matches |-> {"eval ("}] >>

\* The substrings detectPromptInjection looks for with String.includes.
injectionPatterns == {"ignore previous instructions", "system: you are",
                      "pretend you are", "jailbreak", "override your programming"}

\* A mention: an amount of the document with the label or words next to it.
\* style "kv" is `Label: $a`, "pipe" is `Label | $a`, "bare" a standalone `$a`.
MentionStyles == {"kv", "pipe", "bare"}
Labels == {"Total", "Paid", "Due", "Visit"}

Mention(style, label, cents) == [style |-> style, label |-> label, cents |-> cents]

MakeText(length, phrases, mentions) ==
  [length |-> length, phrases |-> phrases, mentions |-> mentions]

EmptyText == MakeText("empty", {}, <<>>)

\* A file: size class, filename extension, and the first four bytes.
FileHeaders == {"FFD8", "89504E47", "%PDF", "other", "short"}
supportedExtensions == {".jpg", ".jpeg", ".png", ".bmp", ".tiff", ".webp", ".pdf"}

MakeFile(tooBig, ext, header) == [tooBig |-> tooBig, ext |-> ext, header |-> header]

NoFile == MakeFile(FALSE, ".none", "short")

\* ProcessingOptions: confidenceThreshold in hundredths, enableAiClassification.
MakeOptions(threshold, enableAi) ==
  [confidenceThreshold |-> threshold, enableAiClassification |-> enableAi]

(***************************************************************************)
(* InputValidator.                                                         *)
(***************************************************************************)
detectFileType(file) ==
  CASE file.header = "short" -> "null"
    [] file.header = "FFD8" -> "jpeg"
    [] file.header = "89504E47" -> "png"
    [] file.header = "%PDF" -> "pdf"
    [] OTHER -> "null"

isValidFileType(detectedType) == detectedType \in {"jpeg", "png", "pdf"}

validateFile(file) ==
  LET sizeV == IF file.tooBig THEN <<Violation("file_size_exceeded", "error")>> ELSE <<>>
      extV == IF file.ext \notin supportedExtensions
              THEN <<Violation("unsupported_file_type", "error")>> ELSE <<>>
      magicNumbers == detectFileType(file)
      badMagic == magicNumbers # "null" /\ ~isValidFileType(magicNumbers)
      magicV == IF badMagic THEN <<Violation("invalid_file_signature", "critical")>> ELSE <<>>
      violations == sizeV \o extV \o magicV
      riskLevel == IF badMagic THEN "critical"
                   ELSE IF file.tooBig \/ file.ext \notin supportedExtensions THEN "high"
                   ELSE "low"
  IN  SubResult(PassedOf(violations), riskLevel, violations,
                IF violations = <<>> THEN 600 ELSE 480, "proceed")

detectSuspiciousPatternsLiteral(text) ==
  IF "ignore previous instructions" \in text.phrases THEN <<"prompt_injection">> ELSE <<>>

detectSuspiciousPatterns(text) ==
  LET hit(p) == p.matches \cap text.phrases # {}
      RECURSIVE names(_)
      names(ps) == IF ps = <<>> THEN <<>>
                   ELSE (IF hit(Head(ps)) THEN <<Head(ps).name>> ELSE <<>>) \o names(Tail(ps))
  IN  names(InputPatterns)

validateText(text) ==
  LET lenV == IF text.length = "too_long" THEN <<Violation("text_too_long", "error")>> ELSE <<>>
      suspicious == detectSuspiciousPatterns(text) # <<>>
      susV == IF suspicious
              THEN <<Violation("suspicious_patterns_detected", "critical")>> ELSE <<>>
      violations == lenV \o susV
      riskLevel == IF suspicious THEN "critical"
                   ELSE IF text.length = "too_long" THEN "high" ELSE "low"
  IN  SubResult(PassedOf(violations), riskLevel, violations,
                IF violations = <<>> THEN 600 ELSE 300,
                IF riskLevel = "critical" THEN "reject" ELSE "proceed")

validateRequestOptions(options) ==
  LET low == options.confidenceThreshold < 30
      violations == IF low THEN <<Violation("confidence_threshold_too_low", "warning")>>
                    ELSE <<>>
  IN  SubResult(TRUE, IF low THEN "medium" ELSE "low", violations, 600, "proceed")

\* The sub-results validateInput merges: file when a buffer is given, text
\* when input.text is a non-empty string, options when present (always).
inputSubResults(hasFile, file, text, options) ==
  (IF hasFile THEN <<validateFile(file)>> ELSE <<>>)
  \o (IF text.length # "empty" THEN <<validateText(text)>> ELSE <<>>)
  \o <<validateRequestOptions(options)>>

validateInput(hasFile, file, text, options) ==
  LET subs == inputSubResults(hasFile, file, text, options)
  IN  GateResult(foldRisk("low", subs), FlatMapViolations(subs))

\* validateProcessing: times in ms, ocrConfidence in hundredths (-1 is null),
\* memoryUsageMB 0 when absent.
validateProcessing(processingData) ==
  LET slow == processingData.processingTimeMs > 30000
      lowOcr == processingData.ocrConfidence # -1 /\ processingData.ocrConfidence < 50
      highMemory == processingData.memoryUsageMB # 0 /\ processingData.memoryUsageMB > 1000
      violations ==
        (IF slow THEN <<Violation("processing_timeout", "error")>> ELSE <<>>)
        \o (IF lowOcr THEN <<Violation("low_ocr_confidence", "warning")>> ELSE <<>>)
        \o (IF highMemory THEN <<Violation("high_memory_usage", "warning")>> ELSE <<>>)
      afterTime == IF slow THEN "high" ELSE "low"
      riskLevel == IF lowOcr THEN getHigherRiskLevel(afterTime, "medium") ELSE afterTime
  IN  GateResult(riskLevel, violations)

(***************************************************************************)
(* Token extraction (text input).  Every amount is written with a "$" and  *)
(* two decimals, so a token's value string is identified by its cents.     *)
(***************************************************************************)
RawToken(value, confidence, context) ==
  [value |-> value, confidence |-> confidence, context |-> context]

RECURSIVE tokensOfStyle(_, _, _)
tokensOfStyle(mentions, style, confidence) ==
  IF mentions = <<>> THEN <<>>
  ELSE (IF Head(mentions).style = style
        THEN <<RawToken(Head(mentions).cents, confidence, Head(mentions).label)>>
        ELSE <<>>) \o tokensOfStyle(Tail(mentions), style, confidence)

\* The word loop: every amount of the text is a word; a word is pushed
\* unless some token already has its value.
RECURSIVE standaloneTokens(_, _)
standaloneTokens(mentions, tokens) ==
  IF mentions = <<>> THEN tokens
  ELSE LET m == Head(mentions)
           alreadyCaptured == \E i \in 1..Len(tokens) : tokens[i].value = m.cents
       IN  standaloneTokens(Tail(mentions),
             IF alreadyCaptured THEN tokens
             ELSE Append(tokens, RawToken(m.cents, 850, m.label)))

extractTokensFromText(text) ==
  standaloneTokens(text.mentions,
    tokensOfStyle(text.mentions, "kv", 950) \o tokensOfStyle(text.mentions, "pipe", 950))

(***************************************************************************)
(* NormalizationService.                                                   *)
(***************************************************************************)
MIN_AMOUNT == 1
MAX_AMOUNT == 1000000000

isValidAmountNoFloor(amount) == amount <= MAX_AMOUNT

isValidAmountExclusive(amount) == amount > MIN_AMOUNT /\ amount < MAX_AMOUNT

isValidAmount(amount) == amount >= MIN_AMOUNT /\ amount <= MAX_AMOUNT /\ amount > 0

\* Labels whose lower-cased text contains one of the amountKeywords.
hasAmountContext(context) == context \in {"Total", "Paid", "Due"}

\* token.confidence, +0.1 for the "$" (a strong indicator), +0.1 for an
\* amount keyword in the context; no correction applies to "$d.dd" and the
\* short-number penalty does not apply to a value with "$".
calculateNormalizationConfidence(token) ==
  Max2(0, Min2(1000, token.confidence + 100
                     + (IF hasAmountContext(token.context) THEN 100 ELSE 0)))

NormalizedAmount(token) ==
  [original |-> token.value,
   normalized |-> token.value,
   confidence |-> calculateNormalizationConfidence(token),
   correctionsApplied |-> <<>>,
   context |-> token.context]

RECURSIVE normalizeAmounts(_)
normalizeAmounts(tokens) ==
  IF tokens = <<>> THEN <<>>
  ELSE (IF isValidAmount(Head(tokens).value) THEN <<NormalizedAmount(Head(tokens))>> ELSE <<>>)
       \o normalizeAmounts(Tail(tokens))

\* A token as written: "$", the digits of the whole part and, after a
\* point, the decimal digits (none: no point).
Written(whole, decimals) == [whole |-> whole, decimals |-> decimals]

RECURSIVE NumDigits(_)
NumDigits(n) == IF n < 10 THEN 1 ELSE 1 + NumDigits(n \div 10)

RECURSIVE DigitsValue(_)
DigitsValue(digits) ==
  IF digits = <<>> THEN 0 ELSE DigitsValue(SubSeq(digits, 1, Len(digits) - 1)) * 10 + digits[Len(digits)]

\* The matches of /\d+(?:[.,]\d{1,2})?/g are the whole part with at most
\* two decimals and, when there are more, the run of the remaining digits;
\* the longest match (the first on a tie) is parsed.  In cents.
extractAndCleanNumber(written) ==
  LET d == written.decimals
      firstLength == NumDigits(written.whole) + (IF d = <<>> THEN 0 ELSE 1 + Min2(2, Len(d)))
      first == written.whole * 100
               + (IF Len(d) >= 1 THEN d[1] * 10 ELSE 0) + (IF Len(d) >= 2 THEN d[2] ELSE 0)
      rest == SubSeq(d, 3, Len(d))
  IN  IF Len(rest) > firstLength THEN DigitsValue(rest) * 100 ELSE first

\* normalizeToken of a written token: the NormalizedAmount, or nothing.
normalizeToken(token) ==
  LET extractedNumber == extractAndCleanNumber(token.value)
  IN  IF isValidAmount(extractedNumber)
      THEN <<[original |-> token.value,
              normalized |-> extractedNumber,
              confidence |-> calculateNormalizationConfidence(token),
              correctionsApplied |-> <<>>,
              context |-> token.context]>>
      ELSE <<>>

RECURSIVE normalizeWritten(_)
normalizeWritten(tokens) ==
  IF tokens = <<>> THEN <<>>
  ELSE normalizeToken(Head(tokens)) \o normalizeWritten(Tail(tokens))

\* Every token value carries "$": the USD pattern /\$\d+/ is the first to match.
detectCurrency(tokens) == "USD"

calculateAverageConfidence(amounts) ==
  IF amounts = <<>> THEN 0
  ELSE SumSeq([i \in 1..Len(amounts) |-> amounts[i].confidence]) \div Len(amounts)

(***************************************************************************)
(* ClassificationService: rule-based path.                                 *)
(***************************************************************************)
\* The keywords of the category tables that each label contains.
KeywordsIn(label) ==
  CASE label = "Total" -> {"total"}
    [] label = "Paid" -> {"paid"}
    [] label = "Due" -> {"due"}
    [] OTHER -> {}

\* The +-50 character window covers the whole of these short documents.
surroundingKeywords(text) ==
  UNION { KeywordsIn(text.mentions[i].label) : i \in 1..Len(text.mentions) }

patterns ==
  << [type |-> "total_bill", priority |-> 10,
      keywords |-> {"total bill", "total charges", "total amount", "grand total",
                    "bill total", "total", "amount due"}],
     [type |-> "paid", priority |-> 9,
      keywords |-> {"paid amount", "payment", "paid", "amount paid", "received",
                    "remitted", "settled"}],
     [type |-> "due", priority |-> 8,
      keywords |-> {"balance due", "amount due", "due", "outstanding", "owe", "owing",
                    "patient balance", "remaining", "balance"}],
     [type |-> "insurance_coverage", priority |-> 9,
      keywords |-> {"insurance coverage", "insurance payment", "insurance", "covered",
                    "coverage", "benefit"}],
     [type |-> "copay", priority |-> 8,
      keywords |-> {"copay", "co-pay", "copayment", "co-payment", "patient copay",
                    "patient responsibility"}],
     [type |-> "deductible", priority |-> 7, keywords |-> {"deductible", "deduct"}],
     [type |-> "discount", priority |-> 7,
      keywords |-> {"discount", "reduction", "off", "deduction", "savings"}],
     [type |-> "tax", priority |-> 6,
      keywords |-> {"tax", "gst", "vat", "sales tax", "service tax"}],
     [type |-> "other", priority |-> 5,
      keywords |-> {"consultation fee", "lab tests", "medication", "fee", "charge", "cost"}] >>

AmountDetail(type, value, source, confidence) ==
  [type |-> type, value |-> value, source |-> source, confidence |-> confidence]

\* The loop over the patterns keeps the best match so far; each value the
\* loop holds is bound once, as the member of a one-element set.
classifyAmountByRules(amount, text) ==
  LET contextKw == KeywordsIn(amount.context)
      fullKw == contextKw \cup surroundingKeywords(text)
      adjustedScore(p) ==
        Min2(900, ((900 * Cardinality(p.keywords \cap contextKw)
                    + 500 * Cardinality(p.keywords \cap (fullKw \ contextKw)))
                   * p.priority) \div 10)
      RECURSIVE best(_, _)
      best(ps, bestMatch) ==
        IF ps = <<>> THEN bestMatch
        ELSE CHOOSE result \in
               { best(Tail(ps),
                      IF score > bestMatch.confidence
                      THEN [type |-> Head(ps).type, confidence |-> score]
                      ELSE bestMatch) : score \in {adjustedScore(Head(ps))} } : TRUE
  IN  CHOOSE detail \in
        { AmountDetail(bestMatch.type, amount.normalized,
                       <<amount.context, amount.original, "rule-based">>,
                       bestMatch.confidence) :
            bestMatch \in {best(patterns, [type |-> "other", confidence |-> 300])} } : TRUE

\* Index of the first amount of the type, 0 when there is none.
findType(amounts, type) ==
  IF \E i \in 1..Len(amounts) : amounts[i].type = type
  THEN CHOOSE i \in 1..Len(amounts) :
         amounts[i].type = type /\ \A j \in 1..(i - 1) : amounts[j].type # type
  ELSE 0

TOLERANCE == 2

\* The operand triples (total, paid, due) of the amounts the model uses
\* whose exact gap is 0.02 while the double Math.abs((total - paid) - due)
\* lies above the double 0.02: 20.03 - 20.00 - 0.01 = 0.020000000000001135.
RoundsAboveTolerance == { <<2003, 2000, 1>> }

\* Math.abs(calculatedDue - due) > 0.02 in double arithmetic: away from a
\* gap of exactly 0.02 the rounding error cannot change the comparison.
exceedsTolerance(total, paid, due) ==
  IF Abs((total - paid) - due) = TOLERANCE
  THEN <<total, paid, due>> \in RoundsAboveTolerance
  ELSE Abs((total - paid) - due) > TOLERANCE

arithmeticMismatch(amounts) ==
  LET t == findType(amounts, "total_bill")
      p == findType(amounts, "paid")
      d == findType(amounts, "due")
  IN  t # 0 /\ p # 0 /\ d # 0
      /\ exceedsTolerance(amounts[t].value, amounts[p].value, amounts[d].value)

ensureLogicalConsistencyFixesValue(amounts) ==
  IF arithmeticMismatch(amounts)
  THEN LET d == findType(amounts, "due")
       IN  [amounts EXCEPT ![d].confidence = (@ * 7) \div 10,
                           ![d].value = amounts[findType(amounts, "total_bill")].value
                                        - amounts[findType(amounts, "paid")].value]
  ELSE amounts

ensureLogicalConsistency(amounts) ==
  IF arithmeticMismatch(amounts)
  THEN LET d == findType(amounts, "due")
       IN  [amounts EXCEPT ![d].confidence = (@ * 7) \div 10]
  ELSE amounts

calculateRuleBasedConfidence(amounts) == calculateAverageConfidence(amounts)

\* An AI response text: whether a brace-delimited JSON object can be found
\* and parsed in it ("none", "invalid", "object"), the classifications of
\* that object, its overall_confidence, and the off-domain keywords it has.
AIResponse(json, classifications, overall, keywords) ==
  [json |-> json, classifications |-> classifications,
   overall |-> overall, keywords |-> keywords]

AIClassification(amount, type, confidence) ==
  [amount |-> amount, type |-> type, confidence |-> confidence]

\* The fixed reasoning string of the rule-based path (no JSON, no digits).
RuleBasedReasoning == AIResponse("none", <<>>, 0, {})

ClassificationResult(amounts, confidence, reasoning, fallbackUsed) ==
  [amounts |-> amounts, confidence |-> confidence,
   reasoning |-> reasoning, fallbackUsed |-> fallbackUsed]

\* amounts.map(amount => classifyAmountByRules(amount, text))
RECURSIVE classifyAll(_, _)
classifyAll(amounts, text) ==
  IF amounts = <<>> THEN <<>>
  ELSE <<classifyAmountByRules(Head(amounts), text)>> \o classifyAll(Tail(amounts), text)

performRuleBasedClassificationKnown(text, amounts) ==
  LET known(a) == a.type # "other"
      kept == SelectSeq(ensureLogicalConsistency(classifyAll(amounts, text)), known)
  IN  ClassificationResult(kept, calculateRuleBasedConfidence(kept), RuleBasedReasoning, TRUE)

performRuleBasedClassification(text, amounts) ==
  CHOOSE result \in
    { ClassificationResult(consistent, calculateRuleBasedConfidence(consistent),
                           RuleBasedReasoning, TRUE) :
        consistent \in { ensureLogicalConsistency(classified) :
                            classified \in {classifyAll(amounts, text)} } } : TRUE

(***************************************************************************)
(* ClassificationService: AI path.                                         *)
(***************************************************************************)
validateAmountType(type) == IF type \in AmountType THEN type ELSE "other"

\* parseAIResponse throws when no JSON object is found or JSON.parse fails.
parseThrows(response) == response.json # "object"

\* Index of the first original amount within 0.01 of the number, 0 if none.
matchingAmount(originalAmounts, number) ==
  IF \E i \in 1..Len(originalAmounts) : Abs(originalAmounts[i].normalized - number) < 1
  THEN CHOOSE i \in 1..Len(originalAmounts) :
         /\ Abs(originalAmounts[i].normalized - number) < 1
         /\ \A j \in 1..(i - 1) : ~(Abs(originalAmounts[j].normalized - number) < 1)
  ELSE 0

RECURSIVE parseClassifications(_, _)
parseClassifications(classifications, originalAmounts) ==
  IF classifications = <<>> THEN <<>>
  ELSE LET c == Head(classifications)
           m == matchingAmount(originalAmounts, c.amount)
           conf == IF c.confidence = 0 THEN 500 ELSE c.confidence
       IN  (IF m # 0
            THEN <<AmountDetail(validateAmountType(c.type), originalAmounts[m].normalized,
                                <<originalAmounts[m].context, originalAmounts[m].original,
                                  "AI classified">>,
                                Max2(0, Min2(1000, conf)))>>
            ELSE <<>>) \o parseClassifications(Tail(classifications), originalAmounts)

parseAIResponse(response, originalAmounts) ==
  parseClassifications(response.classifications, originalAmounts)

\* avgConfidence * coverageRatio = (sum / n) * (n / original.length).
calculateAIConfidence(classified, original) ==
  IF classified = <<>> THEN 0
  ELSE SumSeq([i \in 1..Len(classified) |-> classified[i].confidence]) \div Len(original)

\* The result of an attempt whose response arrived and parsed.
aiClassificationResult(response, amounts) ==
  LET classified == parseAIResponse(response, amounts)
  IN  ClassificationResult(classified, calculateAIConfidence(classified, amounts),
                           response, FALSE)

(***************************************************************************)
(* AISafetyValidator and the AI-safety gate.                               *)
(***************************************************************************)
detectPromptInjection(text) ==
  LET detected == injectionPatterns \cap text.phrases
      violations == IF detected # {}
                    THEN <<Violation("prompt_injection_detected", "critical")>> ELSE <<>>
  IN  SubResult(violations = <<>>, IF violations # <<>> THEN "critical" ELSE "low",
                violations, IF violations = <<>> THEN 600 ELSE 180,
                IF violations # <<>> THEN "reject" ELSE "proceed")

suspiciousKeywords == {"free money", "click here", "congratulations", "winner"}

validateAIResponse(response) ==
  LET violations == IF suspiciousKeywords \cap response.keywords # {}
                    THEN <<Violation("suspicious_ai_response", "warning")>> ELSE <<>>
  IN  SubResult(TRUE, IF violations # <<>> THEN "medium" ELSE "low",
                violations, IF violations = <<>> THEN 600 ELSE 480, "proceed")

\* extractNumbers, in hundredths: the amounts of a document text ...
extractNumbersText(text) == [i \in 1..Len(text.mentions) |-> text.mentions[i].cents]

\* ... and of a JSON response: each amount and confidence, then overall_confidence.
RECURSIVE classificationNumbers(_)
classificationNumbers(cs) ==
  IF cs = <<>> THEN <<>>
  ELSE <<Head(cs).amount, Head(cs).confidence \div 10>> \o classificationNumbers(Tail(cs))

extractNumbersResponse(response) ==
  IF response.json = "object"
  THEN classificationNumbers(response.classifications) \o <<response.overall \div 10>>
  ELSE <<>>

detectHallucination(text, response) ==
  LET inputNumbers == Range(extractNumbersText(text))
      outputNumbers == extractNumbersResponse(response)
      notInInput(n) == n \notin inputNumbers
      hallucinated == SelectSeq(outputNumbers, notInInput)
      violations == IF Len(hallucinated) > 0 /\ 10 * Len(hallucinated) > 3 * Len(outputNumbers)
                    THEN <<Violation("potential_hallucination", "warning")>> ELSE <<>>
  IN  SubResult(TRUE, IF violations # <<>> THEN "medium" ELSE "low",
                violations, IF violations = <<>> THEN 600 ELSE 420, "proceed")

aiSafetySubResults(prompt, response) ==
  <<detectPromptInjection(prompt), validateAIResponse(response),
    detectHallucination(prompt, response)>>

validateAISafety(prompt, response) ==
  LET subs == aiSafetySubResults(prompt, response)
  IN  GateResult(foldRisk("low", subs), FlatMapViolations(subs))

(***************************************************************************)
(* OutputValidator, the business-logic check and the output gate.          *)
(***************************************************************************)
MaxExpectedAmounts == 50
UnreasonableAmount == 100000000

validateAmounts(amounts) ==
  LET tooMany == Len(amounts) > MaxExpectedAmounts
      isHigh(a) == a.value > UnreasonableAmount
      high == SelectSeq(amounts, isHigh)
      violations ==
        (IF tooMany THEN <<Violation("too_many_amounts", "error")>> ELSE <<>>)
        \o [i \in 1..Len(high) |-> Violation("unreasonably_high_amount", "warning")]
      riskLevel == IF tooMany THEN "high" ELSE IF high # <<>> THEN "medium" ELSE "low"
  IN  SubResult(PassedOf(violations), riskLevel, violations,
                IF violations = <<>> THEN 600 ELSE 480, "proceed")

validateCurrency(currency) ==
  LET violations == IF currency \notin Currency
                    THEN <<Violation("unsupported_currency", "warning")>> ELSE <<>>
  IN  SubResult(TRUE, "low", violations, 600, "proceed")

validateConsistency(response) ==
  LET bad == response.status = "ok" /\ response.amounts = <<>>
      violations == IF bad THEN <<Violation("status_amount_inconsistency", "error")>> ELSE <<>>
  IN  SubResult(PassedOf(violations), IF bad THEN "high" ELSE "low", violations,
                IF violations = <<>> THEN 600 ELSE 420, "proceed")

validateBusinessLogic(output) ==
  LET amounts == output.amounts
      unreasonable == \E i \in 1..Len(amounts) :
                        amounts[i].value > UnreasonableAmount \/ amounts[i].value < 1
      duplicate == \E i, j \in 1..Len(amounts) :
                     i < j /\ amounts[i].type = amounts[j].type /\ amounts[i].type # "other"
      lowConfidence == \E i \in 1..Len(amounts) : amounts[i].confidence < 700
  IN  (IF unreasonable THEN <<Violation("unreasonable_amounts", "warning")>> ELSE <<>>)
      \o (IF duplicate THEN <<Violation("duplicate_amount_types", "error")>> ELSE <<>>)
      \o (IF arithmeticMismatch(amounts)
          THEN <<Violation("amount_arithmetic_mismatch", "warning")>> ELSE <<>>)
      \o (IF lowConfidence THEN <<Violation("low_confidence_amounts", "warning")>> ELSE <<>>)

outputSubResults(output) ==
  <<validateAmounts(output.amounts), validateCurrency(output.currency),
    validateConsistency(output)>>

validateOutput(output) ==
  LET subs == outputSubResults(output)
      businessLogicViolations == validateBusinessLogic(output)
      subRisk == foldRisk("low", subs)
      riskLevel == IF businessLogicViolations # <<>>
                   THEN getHigherRiskLevel(subRisk, "medium") ELSE subRisk
  IN  GateResult(riskLevel, FlatMapViolations(subs) \o businessLogicViolations)

(***************************************************************************)
(* OCRService: the tokens of a recognised page.  Every word of the model   *)
(* is an amount word (it has a digit, so isRelevantToken accepts it); the  *)
(* engine reports one confidence for the page and its words, in hundredths.*)
(***************************************************************************)
RowHeight == 30
RowTolerance == 20

ocrWords(text, confidence) ==
  [i \in 1..Len(text.mentions) |->
     [value |-> text.mentions[i].cents, confidence |-> confidence,
      context |-> text.mentions[i].label, position |-> [x |-> 0, y |-> RowHeight * i]]]

\* The comparator of tokens.sort: rows more than 20 apart by y, else by x.
positionBefore(a, b) ==
  IF Abs(a.position.y - b.position.y) > RowTolerance
  THEN a.position.y < b.position.y
  ELSE a.position.x < b.position.x

RECURSIVE insertByPosition(_, _)
insertByPosition(sorted, t) ==
  IF sorted = <<>> THEN <<t>>
  ELSE IF positionBefore(t, Head(sorted)) THEN <<t>> \o sorted
  ELSE <<Head(sorted)>> \o insertByPosition(Tail(sorted), t)

RECURSIVE sortByPosition(_)
sortByPosition(tokens) ==
  IF tokens = <<>> THEN <<>>
  ELSE insertByPosition(sortByPosition(SubSeq(tokens, 1, Len(tokens) - 1)),
                        tokens[Len(tokens)])

extractTokensFromOCRResult(words, confidenceThreshold) ==
  LET kept(w) == ~(w.confidence < confidenceThreshold)
      confident == SelectSeq(words, kept)
  IN  sortByPosition([i \in 1..Len(confident) |->
        [value |-> confident[i].value, confidence |-> confident[i].confidence * 10,
         context |-> confident[i].context, position |-> confident[i].position]])

OCRResult(text, confidence, tokens) ==
  [text |-> text, confidence |-> confidence, tokens |-> tokens]

extractText(text, confidence, options) ==
  OCRResult(text, confidence,
            extractTokensFromOCRResult(ocrWords(text, confidence),
                                       options.confidenceThreshold))

(***************************************************************************)
(* DocumentProcessor: responses and the merge of gate results.             *)
(***************************************************************************)
isWarning(v) == v.severity = "warning"

\* ocrConfidence -1 stands for null.
ProcessingDetails(ocr, normalization, classification, tokensExtracted, corrections) ==
  [ocrConfidence |-> ocr,
   normalizationConfidence |-> normalization,
   classificationConfidence |-> classification,
   tokensExtracted |-> tokensExtracted,
   correctionsApplied |-> corrections]

DocumentResponse(currency, amounts, status, details, guardrailsResult, warnings) ==
  [currency |-> currency, amounts |-> amounts, status |-> status,
   processingDetails |-> details, guardrailsResult |-> guardrailsResult,
   warnings |-> warnings]

createErrorResponse(guardrailsResult) ==
  DocumentResponse("USD", <<>>, "error", ProcessingDetails(-1, 0, 0, 0, <<>>),
                   guardrailsResult, SelectSeq(guardrailsResult.violations, isWarning))

noAmountsResponseAsError(ocrConfidence, tokensExtracted, guardrailsResult) ==
  DocumentResponse("USD", <<>>, "error",
                   ProcessingDetails(ocrConfidence, 0, 0, tokensExtracted, <<>>),
                   guardrailsResult, <<>>)

\* The three NO_AMOUNTS_FOUND literals carry no warnings field.
noAmountsResponse(ocrConfidence, tokensExtracted, guardrailsResult) ==
  DocumentResponse("USD", <<>>, "no_amounts_found",
                   ProcessingDetails(ocrConfidence, 0, 0, tokensExtracted, <<>>),
                   guardrailsResult, <<>>)

actionOrder(action) ==
  CASE action = "proceed" -> 0
    [] action = "proceed_with_caution" -> 1
    [] action = "manual_review" -> 2
    [] action = "reject" -> 3

RECURSIVE worstRisk(_, _)
worstRisk(worst, results) ==
  IF results = <<>> THEN worst
  ELSE worstRisk(IF riskOrder(Head(results).riskLevel) > riskOrder(worst)
                 THEN Head(results).riskLevel ELSE worst, Tail(results))

RECURSIVE mostRestrictive(_, _)
mostRestrictive(worst, results) ==
  IF results = <<>> THEN worst
  ELSE mostRestrictive(IF actionOrder(Head(results).recommendedAction) > actionOrder(worst)
                       THEN Head(results).recommendedAction ELSE worst, Tail(results))

combineGuardrailResults(results) ==
  IF results = <<>> THEN SubResult(TRUE, "low", <<>>, 600, "proceed")
  ELSE IF Len(results) = 1 THEN results[1]
  ELSE SubResult(\A i \in 1..Len(results) : results[i].passed,
                 worstRisk("low", results),
                 FlatMapViolations(results),
                 SumSeq([i \in 1..Len(results) |-> results[i].confidence]) \div Len(results),
                 mostRestrictive("proceed", results))

(***************************************************************************)
(* Bounds and input sets.                                                  *)
(***************************************************************************)
MaxPhrases == 1
MaxMentions == 3
MaxOcrMentions == 2

\* config.AI_MAX_RETRIES and config.ENABLE_FALLBACK_CLASSIFICATION defaults.
AI_MAX_RETRIES == 3

InputPhrases == {"ignore previous instructions", "ignore  previous  instructions",
                 "jailbreak", "<script"}

PhraseSets == { S \in SUBSET InputPhrases : Cardinality(S) <= MaxPhrases }

\* The amounts a document may mention, in reading order; a document
\* mentions some of them.
BaseDocument ==
  << Mention("kv", "Total", 10000), Mention("kv", "Paid", 8000),
     Mention("kv", "Due", 3000), Mention("pipe", "Due", 2000),
     Mention("bare", "Visit", 10000), Mention("bare", "Visit", 0),
     Mention("bare", "Visit", 200000000) >>

RECURSIVE pick(_, _)
pick(doc, keep) ==
  IF doc = <<>> THEN <<>>
  ELSE (IF Len(doc) \in keep THEN <<doc[Len(doc)]>> ELSE <<>>)
       \o pick(SubSeq(doc, 1, Len(doc) - 1), keep)

RECURSIVE reverse(_)
reverse(q) == IF q = <<>> THEN <<>> ELSE Append(reverse(Tail(q)), Head(q))

Documents(max) ==
  { reverse(pick(BaseDocument, keep)) :
      keep \in { K \in SUBSET (1..Len(BaseDocument)) : Cardinality(K) <= max } }

Texts ==
  { MakeText(l, ph, d) : l \in {"normal", "too_long"}, ph \in PhraseSets,
                         d \in Documents(MaxMentions) } \cup {EmptyText}

\* What the OCR engine may recognise on a page.
OcrTexts == { MakeText("normal", ph, d) : ph \in PhraseSets, d \in Documents(MaxOcrMentions) }
OcrConfidences == {50, 90}

Files == { MakeFile(FALSE, ".jpg", "FFD8"), MakeFile(TRUE, ".jpg", "FFD8"),
           MakeFile(FALSE, ".exe", "other"), MakeFile(FALSE, ".jpg", "%PDF") }

OptionsSet == { MakeOptions(t, ai) : t \in {20, 70}, ai \in BOOLEAN }

\* What the AI collaborator may answer.
AIResponses ==
  { AIResponse("none", <<>>, 0, {}),
    AIResponse("object",
               << AIClassification(10000, "total_bill", 900),
                  AIClassification(8000, "paid", 900),
                  AIClassification(3000, "due", 900),
                  AIClassification(2000, "balance", 0) >>, 900, {}),
    AIResponse("object", << AIClassification(99999, "total_bill", 900) >>, 900, {}),
    AIResponse("object",
               << AIClassification(10000, "total_bill", 800),
                  AIClassification(10000, "paid", 800) >>, 800, {"free money"}) }

(***************************************************************************)
(* State.                                                                  *)
(***************************************************************************)
VARIABLES
  enableFallback,        \* config.ENABLE_FALLBACK_CLASSIFICATION
  calls,                 \* the locals of the calls served concurrently, per call
  pc,                    \* position of the request in processText / processImage
  req,                   \* the call: kind, text, file, options
  inputSubs,             \* sub-results merged by validateInput
  inputValidation,
  ocrResult,
  tokens,
  normalizedAmounts,
  attempt,               \* performAIClassification's attempt counter
  aiCalls,               \* invocations of model.generateContent of this request
  abandoned,             \* calls that lost the race to the timeout, still in flight
  classificationResult,
  aiSafetySubs,          \* sub-results merged by validateAISafety
  aiSafetyValidation,
  outputSubs,            \* sub-results merged by validateOutput
  outputValidation,
  processingValidation,  \* result of the last direct validateProcessing call
  response,
  outcome,               \* "none", "returned", "thrown"
  trace                  \* stages executed for this request, in order

vars == << enableFallback, calls, pc, req, inputSubs, inputValidation, ocrResult, tokens,
           normalizedAmounts, attempt, aiCalls, abandoned, classificationResult,
           aiSafetySubs,
           aiSafetyValidation, outputSubs, outputValidation, processingValidation,
           response, outcome, trace >>

\* Placeholders for values not yet computed (null / undefined).
NoCalls == <<>>
NoResult == SubResult(TRUE, "none", <<>>, 0, "none")
NoRequest == [kind |-> "none", text |-> EmptyText, file |-> NoFile,
              options |-> MakeOptions(70, FALSE)]
NoOcr == OCRResult(EmptyText, 0, <<>>)
NoClassification == ClassificationResult(<<>>, 0, RuleBasedReasoning, FALSE)
NoResponse == DocumentResponse("USD", <<>>, "none", ProcessingDetails(-1, 0, 0, 0, <<>>),
                               NoResult, <<>>)

Cleared ==
  /\ req = NoRequest
  /\ inputSubs = <<>>
  /\ inputValidation = NoResult
  /\ ocrResult = NoOcr
  /\ tokens = <<>>
  /\ normalizedAmounts = <<>>
  /\ attempt = 0
  /\ aiCalls = 0
  /\ abandoned = 0
  /\ classificationResult = NoClassification
  /\ aiSafetySubs = <<>>
  /\ aiSafetyValidation = NoResult
  /\ outputSubs = <<>>
  /\ outputValidation = NoResult
  /\ processingValidation = NoResult
  /\ response = NoResponse
  /\ outcome = "none"
  /\ trace = <<>>

Init ==
  /\ enableFallback \in BOOLEAN
  /\ calls = NoCalls
  /\ pc = "idle"
  /\ Cleared

(***************************************************************************)
(* processText / processImage, one action per await of the handler.        *)
(***************************************************************************)
IsImage == req.kind = "image"

\* The caller invokes processText(text, options).
ReceiveText ==
  /\ pc = "idle"
  /\ \E text \in Texts, options \in OptionsSet :
       req' = [kind |-> "text", text |-> text, file |-> NoFile, options |-> options]
  /\ pc' = "received"
  /\ processingValidation' = NoResult
  /\ UNCHANGED << abandoned, enableFallback, calls, inputSubs, inputValidation, ocrResult, tokens,
                  normalizedAmounts, attempt, aiCalls, classificationResult,
                  aiSafetySubs, aiSafetyValidation, outputSubs, outputValidation,
                  response, outcome, trace >>

\* The caller invokes processImage(imageBuffer, filename, options).
ReceiveImage ==
  /\ pc = "idle"
  /\ \E file \in Files, options \in OptionsSet :
       req' = [kind |-> "image", text |-> EmptyText, file |-> file, options |-> options]
  /\ pc' = "received"
  /\ processingValidation' = NoResult
  /\ UNCHANGED << abandoned, enableFallback, calls, inputSubs, inputValidation, ocrResult, tokens,
                  normalizedAmounts, attempt, aiCalls, classificationResult,
                  aiSafetySubs, aiSafetyValidation, outputSubs, outputValidation,
                  response, outcome, trace >>

\* A caller of the service invokes guardrailsService.validateProcessing
\* directly (the pipeline itself never does), while no request is in flight.
ProcessingDataSet ==
  { [processingTimeMs |-> t, ocrConfidence |-> c, memoryUsageMB |-> m] :
      t \in {1000, 31000}, c \in {-1, 40, 90}, m \in {0, 1500} }

ValidateProcessing ==
  /\ pc = "idle"
  /\ \E data \in ProcessingDataSet : processingValidation' = validateProcessing(data)
  /\ UNCHANGED << abandoned, enableFallback, calls, pc, req, inputSubs, inputValidation,
                  ocrResult, tokens, normalizedAmounts, attempt, aiCalls,
                  classificationResult, aiSafetySubs, aiSafetyValidation, outputSubs,
                  outputValidation, response, outcome, trace >>

\* Step 1: the input gate; REJECT on a failed gate returns the error response.
rejectsInputNever(validation) ==
  ~validation.passed /\ validation.recommendedAction = "REJECT"

rejectsInput(validation) ==
  ~validation.passed /\ validation.recommendedAction = "reject"

InputGate ==
  /\ pc = "received"
  /\ LET validation == validateInput(IsImage, req.file, req.text, req.options)
     IN  /\ inputSubs' = inputSubResults(IsImage, req.file, req.text, req.options)
         /\ inputValidation' = validation
         /\ trace' = Append(trace, "input_gate")
         /\ IF rejectsInput(validation)
            THEN /\ response' = createErrorResponse(validation)
                 /\ outcome' = "returned"
                 /\ pc' = "done"
            ELSE /\ UNCHANGED << response, outcome >>
                 /\ pc' = "validated"
  /\ UNCHANGED << processingValidation, abandoned, enableFallback, calls, req, ocrResult, tokens, normalizedAmounts, attempt,
                  aiCalls, classificationResult, aiSafetySubs, aiSafetyValidation,
                  outputSubs, outputValidation >>

\* processText steps 2-3: extractTokensFromText, then normalizeAmounts.
ExtractAndNormalize ==
  /\ pc = "validated"
  /\ ~IsImage
  /\ LET extracted == extractTokensFromText(req.text)
         normalized == normalizeAmounts(extracted)
     IN  /\ tokens' = extracted
         /\ normalizedAmounts' = normalized
         /\ trace' = trace \o <<"extract", "normalize">>
         /\ IF normalized = <<>>
            THEN /\ response' = noAmountsResponse(-1, Len(extracted), inputValidation)
                 /\ outcome' = "returned"
                 /\ pc' = "done"
            ELSE /\ UNCHANGED << response, outcome >>
                 /\ pc' = "normalized"
  /\ UNCHANGED << processingValidation, abandoned, enableFallback, calls, req, inputSubs, inputValidation, ocrResult, attempt,
                  aiCalls, classificationResult, aiSafetySubs, aiSafetyValidation,
                  outputSubs, outputValidation >>

\* processImage step 2: ocrService.extractText returns.
OcrReturns ==
  /\ pc = "validated"
  /\ IsImage
  /\ \E text \in OcrTexts, confidence \in OcrConfidences :
       LET result == extractText(text, confidence, req.options)
       IN  /\ ocrResult' = result
           /\ tokens' = result.tokens
           /\ trace' = Append(trace, "ocr")
           /\ IF result.tokens = <<>>
              THEN /\ response' = noAmountsResponse(result.confidence, 0, inputValidation)
                   /\ outcome' = "returned"
                   /\ pc' = "done"
              ELSE /\ UNCHANGED << response, outcome >>
                   /\ pc' = "ocr_done"
  /\ UNCHANGED << processingValidation, abandoned, enableFallback, calls, req, inputSubs, inputValidation, normalizedAmounts,
                  attempt, aiCalls, classificationResult, aiSafetySubs,
                  aiSafetyValidation, outputSubs, outputValidation >>

\* The catch block of processText / processImage: it logs and throws
\* new Error('Processing failed: ...'); the call returns nothing.
catchReturnsError ==
  /\ response' = createErrorResponse(inputValidation)
  /\ outcome' = "returned"

catchRethrows ==
  /\ outcome' = "thrown"
  /\ UNCHANGED response

\* processImage step 2: ocrService.extractText throws.
OcrThrows ==
  /\ pc = "validated"
  /\ IsImage
  /\ trace' = trace \o <<"ocr", "exception">>
  /\ catchRethrows
  /\ pc' = "done"
  /\ UNCHANGED << processingValidation, abandoned, enableFallback, calls, req, inputSubs, inputValidation, ocrResult, tokens,
                  normalizedAmounts, attempt, aiCalls, classificationResult,
                  aiSafetySubs, aiSafetyValidation, outputSubs, outputValidation >>

\* processImage step 3: normalizeAmounts.
NormalizeImage ==
  /\ pc = "ocr_done"
  /\ LET normalized == normalizeAmounts(tokens)
     IN  /\ normalizedAmounts' = normalized
         /\ trace' = Append(trace, "normalize")
         /\ IF normalized = <<>>
            THEN /\ response' = noAmountsResponse(ocrResult.confidence, Len(tokens),
                                                  inputValidation)
                 /\ outcome' = "returned"
                 /\ pc' = "done"
            ELSE /\ UNCHANGED << response, outcome >>
                 /\ pc' = "normalized"
  /\ UNCHANGED << processingValidation, abandoned, enableFallback, calls, req, inputSubs, inputValidation, ocrResult, tokens,
                  attempt, aiCalls, classificationResult, aiSafetySubs,
                  aiSafetyValidation, outputSubs, outputValidation >>

(***************************************************************************)
(* classifyAmounts and the retry loop of performAIClassification.          *)
(***************************************************************************)
\* The text handed to the classifier: the input text, or ocrResult.text.
SourceText == IF IsImage THEN ocrResult.text ELSE req.text

usesAIIgnoringOption == enableFallback

usesAI == req.options.enableAiClassification /\ enableFallback

\* classifyAmounts is entered: the first AI attempt starts, or the
\* rule-based classification runs at once.
ClassifyStart ==
  /\ pc = "normalized"
  /\ trace' = Append(trace, "classify")
  /\ IF usesAI
     THEN /\ pc' = "ai_call"
          /\ attempt' = 0
          /\ aiCalls' = 1
          /\ UNCHANGED classificationResult
     ELSE /\ pc' = "classified"
          /\ classificationResult' = performRuleBasedClassification(SourceText,
                                                                    normalizedAmounts)
          /\ UNCHANGED << attempt, aiCalls >>
  /\ UNCHANGED << processingValidation, abandoned, enableFallback, calls, req, inputSubs, inputValidation, ocrResult, tokens,
                  normalizedAmounts, aiSafetySubs, aiSafetyValidation, outputSubs,
                  outputValidation, response, outcome >>

\* classifyAmounts throws: its outer catch block rethrows whatever escaped
\* the classification as 'Classification failed: ...'.
ClassifyThrows ==
  /\ pc = "normalized"
  /\ trace' = trace \o <<"classify", "exception">>
  /\ catchRethrows
  /\ pc' = "done"
  /\ UNCHANGED << processingValidation, abandoned, enableFallback, calls, req, inputSubs, inputValidation, ocrResult, tokens,
                  normalizedAmounts, attempt, aiCalls, classificationResult,
                  aiSafetySubs, aiSafetyValidation, outputSubs, outputValidation >>

\* The catch block of the loop: attempt++, rethrow at the ceiling (and
\* classifyAmounts falls back to the rules), else wait for the backoff.
retryCeilingLate(n) == n > AI_MAX_RETRIES

retryCeiling(n) == n >= AI_MAX_RETRIES

AttemptFailed ==
  /\ attempt' = attempt + 1
  /\ IF retryCeiling(attempt + 1)
     THEN /\ pc' = "classified"
          /\ classificationResult' = performRuleBasedClassification(SourceText,
                                                                    normalizedAmounts)
     ELSE /\ pc' = "ai_backoff"
          /\ UNCHANGED classificationResult
  /\ UNCHANGED << processingValidation, enableFallback, calls, req, inputSubs, inputValidation,
                  ocrResult, tokens,
                  normalizedAmounts, aiCalls, aiSafetySubs, aiSafetyValidation,
                  outputSubs, outputValidation, response, outcome, trace >>

\* The response settles the race and parses.
AIResponds ==
  /\ pc = "ai_call"
  /\ \E r \in AIResponses :
       /\ ~parseThrows(r)
       /\ classificationResult' = aiClassificationResult(r, normalizedAmounts)
  /\ pc' = "classified"
  /\ UNCHANGED << processingValidation, abandoned, enableFallback, calls, req, inputSubs, inputValidation, ocrResult, tokens,
                  normalizedAmounts, attempt, aiCalls, aiSafetySubs, aiSafetyValidation,
                  outputSubs, outputValidation, response, outcome, trace >>

\* The response settles the race but parseAIResponse throws.
AIRespondsUnusable ==
  /\ pc = "ai_call"
  /\ \E r \in AIResponses : parseThrows(r)
  /\ AttemptFailed
  /\ UNCHANGED abandoned

\* generateContent rejects (transport error).
AIRejects ==
  /\ pc = "ai_call"
  /\ AttemptFailed
  /\ UNCHANGED abandoned

\* The timeout settles the race first; the call itself is not cancelled.
AITimeout ==
  /\ pc = "ai_call"
  /\ AttemptFailed
  /\ abandoned' = abandoned + 1

LateSettleAdopts ==
  /\ abandoned > 0
  /\ abandoned' = abandoned - 1
  /\ \E r \in AIResponses :
       /\ ~parseThrows(r)
       /\ classificationResult' = aiClassificationResult(r, normalizedAmounts)
  /\ UNCHANGED << processingValidation, enableFallback, calls, pc, req, inputSubs,
                  inputValidation, ocrResult,
                  tokens, normalizedAmounts, attempt, aiCalls,
                  aiSafetySubs, aiSafetyValidation, outputSubs, outputValidation,
                  response, outcome, trace >>

\* A call abandoned by its timeout settles; Promise.race has already
\* settled, nothing reads the late result.
LateSettle ==
  /\ abandoned > 0
  /\ abandoned' = abandoned - 1
  /\ UNCHANGED << processingValidation, enableFallback, calls, pc, req, inputSubs,
                  inputValidation, ocrResult,
                  tokens, normalizedAmounts, attempt, aiCalls, classificationResult,
                  aiSafetySubs, aiSafetyValidation, outputSubs, outputValidation,
                  response, outcome, trace >>

BackoffDoneNeverResolves ==
  /\ pc = "ai_backoff"
  /\ UNCHANGED vars

\* The backoff timer fires: the loop makes its next attempt.
BackoffDone ==
  /\ pc = "ai_backoff"
  /\ pc' = "ai_call"
  /\ aiCalls' = aiCalls + 1
  /\ UNCHANGED << processingValidation, abandoned, enableFallback, calls, req, inputSubs, inputValidation, ocrResult, tokens,
                  normalizedAmounts, attempt, classificationResult, aiSafetySubs,
                  aiSafetyValidation, outputSubs, outputValidation, response, outcome,
                  trace >>

(***************************************************************************)
(* The last steps: AI-safety gate, response, output gate.                  *)
(***************************************************************************)
\* processImage step 6 runs validateAISafety "if AI was used"; processText
\* has no such step.
runsAISafety ==
  IsImage /\ req.options.enableAiClassification /\ ~classificationResult.fallbackUsed

AISafetyGate ==
  /\ pc = "classified"
  /\ runsAISafety
  /\ aiSafetySubs' = aiSafetySubResults(ocrResult.text, classificationResult.reasoning)
  /\ aiSafetyValidation' = validateAISafety(ocrResult.text, classificationResult.reasoning)
  /\ trace' = Append(trace, "ai_safety")
  /\ pc' = "ai_safety_checked"
  /\ UNCHANGED << processingValidation, abandoned, enableFallback, calls, req, inputSubs, inputValidation, ocrResult, tokens,
                  normalizedAmounts, attempt, aiCalls, classificationResult, outputSubs,
                  outputValidation, response, outcome >>

\* The response literal built before the output gate.
builtResponse ==
  DocumentResponse(
    detectCurrency(tokens),
    classificationResult.amounts,
    "ok",
    ProcessingDetails(IF IsImage THEN ocrResult.confidence ELSE -1,
                      calculateAverageConfidence(normalizedAmounts),
                      classificationResult.confidence,
                      Len(tokens),
                      <<>>),
    inputValidation,
    SelectSeq(inputValidation.violations, isWarning)
    \o (IF aiSafetyValidation # NoResult
        THEN SelectSeq(aiSafetyValidation.violations, isWarning) ELSE <<>>))

\* The guardrailsResult of the returned response: processText assigns the
\* output gate's result, processImage combines the gates that ran.
finalGuardrails(validation) ==
  IF IsImage
  THEN combineGuardrailResults(<<inputValidation, validation>>
         \o (IF aiSafetyValidation # NoResult THEN <<aiSafetyValidation>> ELSE <<>>))
  ELSE validation

OutputGate ==
  /\ \/ pc = "classified" /\ ~runsAISafety
     \/ pc = "ai_safety_checked"
  /\ LET built == builtResponse
         validation == validateOutput(built)
     IN  /\ outputSubs' = outputSubResults(built)
         /\ outputValidation' = validation
         /\ response' = [built EXCEPT
                           !.guardrailsResult = finalGuardrails(validation),
                           !.warnings = @ \o SelectSeq(validation.violations, isWarning)]
  /\ trace' = Append(trace, "output_gate")
  /\ outcome' = "returned"
  /\ pc' = "done"
  /\ UNCHANGED << processingValidation, abandoned, enableFallback, calls, req, inputSubs, inputValidation, ocrResult, tokens,
                  normalizedAmounts, attempt, aiCalls, classificationResult,
                  aiSafetySubs, aiSafetyValidation >>

\* The caller has its response (or its exception); the next call may come.
Finish ==
  /\ pc = "done"
  /\ pc' = "idle"
  /\ req' = NoRequest
  /\ inputSubs' = <<>>
  /\ inputValidation' = NoResult
  /\ ocrResult' = NoOcr
  /\ tokens' = <<>>
  /\ normalizedAmounts' = <<>>
  /\ attempt' = 0
  /\ aiCalls' = 0
  /\ abandoned' = 0
  /\ classificationResult' = NoClassification
  /\ aiSafetySubs' = <<>>
  /\ aiSafetyValidation' = NoResult
  /\ outputSubs' = <<>>
  /\ outputValidation' = NoResult
  /\ processingValidation' = NoResult
  /\ response' = NoResponse
  /\ outcome' = "none"
  /\ trace' = <<>>
  /\ UNCHANGED << enableFallback, calls >>

Next ==
  \/ ReceiveText
  \/ ReceiveImage
  \/ ValidateProcessing
  \/ InputGate
  \/ ExtractAndNormalize
  \/ OcrReturns
  \/ OcrThrows
  \/ NormalizeImage
  \/ ClassifyStart
  \/ ClassifyThrows
  \/ AIResponds
  \/ AIRespondsUnusable
  \/ AIRejects
  \/ AITimeout
  \/ LateSettle
  \/ BackoffDone
  \/ AISafetyGate
  \/ OutputGate
  \/ Finish

Spec == Init /\ [][Next]_vars

(***************************************************************************)
(* classifyAmounts on its own: the states in which processText enters it,  *)
(* and the steps of the call up to its return.                             *)
(***************************************************************************)
ClassifierInit ==
  /\ enableFallback \in BOOLEAN
  /\ calls = NoCalls
  /\ \E text \in Texts, options \in OptionsSet :
       /\ req = [kind |-> "text", text |-> text, file |-> NoFile, options |-> options]
       /\ inputSubs = inputSubResults(FALSE, NoFile, text, options)
       /\ inputValidation = validateInput(FALSE, NoFile, text, options)
       /\ ~rejectsInput(inputValidation)
       /\ tokens = extractTokensFromText(text)
       /\ normalizedAmounts = normalizeAmounts(tokens)
       /\ normalizedAmounts # <<>>
  /\ pc = "normalized"
  /\ trace = <<"input_gate", "extract", "normalize">>
  /\ ocrResult = NoOcr
  /\ attempt = 0
  /\ aiCalls = 0
  /\ abandoned = 0
  /\ classificationResult = NoClassification
  /\ aiSafetySubs = <<>>
  /\ aiSafetyValidation = NoResult
  /\ outputSubs = <<>>
  /\ outputValidation = NoResult
  /\ processingValidation = NoResult
  /\ response = NoResponse
  /\ outcome = "none"

ClassifierNext ==
  \/ ClassifyStart
  \/ ClassifyThrows
  \/ AIResponds
  \/ AIRespondsUnusable
  \/ AIRejects
  \/ AITimeout
  \/ LateSettle
  \/ BackoffDone

\* The timeout of each attempt (setTimeout in the Promise.race) and the
\* backoff (setTimeout in the catch block) are timers of the event loop:
\* once armed they fire.
FairSpec ==
  ClassifierInit /\ [][ClassifierNext]_vars /\ WF_vars(AITimeout) /\ WF_vars(BackoffDone)

(***************************************************************************)
(* The output gate on its own: the states in which processText reaches it  *)
(* after the AI has classified the amounts of a text.                      *)
(***************************************************************************)
MaxGateAmounts == 3

GateValues == {1, 2000, 2003, 10000}

GateTypes == {"total_bill", "paid", "due", "other"}

GateDocuments ==
  UNION { [1..n -> { Mention("kv", "Total", v) : v \in GateValues }] : n \in 1..MaxGateAmounts }

\* The AI answers that classify each amount of the document once, in order.
GateAnswers(amounts) ==
  { AIResponse("object",
               [i \in 1..Len(amounts) |->
                  AIClassification(amounts[i].normalized, types[i], 900)], 900, {}) :
      types \in [1..Len(amounts) -> GateTypes] }

OutputGateInit ==
  /\ enableFallback = TRUE
  /\ calls = NoCalls
  /\ \E doc \in GateDocuments :
       LET text == MakeText("normal", {}, doc)
           options == MakeOptions(70, TRUE)
       IN  /\ req = [kind |-> "text", text |-> text, file |-> NoFile, options |-> options]
           /\ inputSubs = inputSubResults(FALSE, NoFile, text, options)
           /\ inputValidation = validateInput(FALSE, NoFile, text, options)
           /\ tokens = extractTokensFromText(text)
           /\ normalizedAmounts = normalizeAmounts(tokens)
           /\ \E r \in GateAnswers(normalizedAmounts) :
                classificationResult = aiClassificationResult(r, normalizedAmounts)
  /\ pc = "classified"
  /\ trace = <<"input_gate", "extract", "normalize", "classify">>
  /\ ocrResult = NoOcr
  /\ attempt = 0
  /\ aiCalls = 1
  /\ abandoned = 0
  /\ aiSafetySubs = <<>>
  /\ aiSafetyValidation = NoResult
  /\ outputSubs = <<>>
  /\ outputValidation = NoResult
  /\ processingValidation = NoResult
  /\ response = NoResponse
  /\ outcome = "none"

OutputGateNext == OutputGate

OutputGateSpec == OutputGateInit /\ [][OutputGateNext]_vars

(***************************************************************************)
(* normalizeAmounts on its own, on one token as it is written.             *)
(***************************************************************************)
MaxDecimals == 3

Wholes == {0, 1, 9999999, 10000000, 10000001}

DecimalDigits == {0, 1, 9}

WrittenTokens ==
  { Written(w, d) : w \in Wholes,
                    d \in UNION { [1..n -> DecimalDigits] : n \in 0..MaxDecimals }
                          \cup {<<0, 0, 9, 1, 2, 3, 4, 5>>} }

NormalizeInit ==
  /\ enableFallback \in BOOLEAN
  /\ calls = NoCalls
  /\ pc = "token_extracted"
  /\ \E w \in WrittenTokens, c \in {"Total", "Visit"} : tokens = <<RawToken(w, 950, c)>>
  /\ req = NoRequest
  /\ inputSubs = <<>>
  /\ inputValidation = NoResult
  /\ ocrResult = NoOcr
  /\ normalizedAmounts = <<>>
  /\ attempt = 0
  /\ aiCalls = 0
  /\ abandoned = 0
  /\ classificationResult = NoClassification
  /\ aiSafetySubs = <<>>
  /\ aiSafetyValidation = NoResult
  /\ outputSubs = <<>>
  /\ outputValidation = NoResult
  /\ processingValidation = NoResult
  /\ response = NoResponse
  /\ outcome = "none"
  /\ trace = <<>>

NormalizeWritten ==
  /\ pc = "token_extracted"
  /\ normalizedAmounts' = normalizeWritten(tokens)
  /\ pc' = "token_normalized"
  /\ trace' = Append(trace, "normalize")
  /\ UNCHANGED << enableFallback, calls, req, inputSubs, inputValidation, ocrResult, tokens,
                  attempt, aiCalls, abandoned, classificationResult, aiSafetySubs,
                  aiSafetyValidation, outputSubs, outputValidation, processingValidation,
                  response, outcome >>

NormalizeNext == NormalizeWritten

NormalizeSpec == NormalizeInit /\ [][NormalizeNext]_vars

(***************************************************************************)
(* Two processText calls served by the same DocumentProcessor.  A call     *)
(* runs from one await to the next without interruption; between awaits    *)
(* the other call may run.  The services hold configuration only; every    *)
(* value a call computes is a local of that call.                          *)
(***************************************************************************)
CallIds == {1, 2}

CallTexts ==
  { MakeText("normal", {}, <<Mention("kv", "Total", 10000), Mention("kv", "Paid", 8000),
                             Mention("kv", "Due", 3000)>>),
    MakeText("normal", {}, <<Mention("kv", "Total", 10000)>>),
    MakeText("normal", {}, <<Mention("bare", "Visit", 0)>>),
    MakeText("normal", {"jailbreak"}, <<Mention("kv", "Paid", 8000)>>) }

\* What the AI collaborator answers to a call, at every attempt.
CallAnswers ==
  { AIResponse("none", <<>>, 0, {}),
    AIResponse("object",
               << AIClassification(10000, "total_bill", 900),
                  AIClassification(8000, "paid", 900) >>, 900, {}) }

NewCall(text, options, answer) ==
  [pc |-> "received", text |-> text, options |-> options, answer |-> answer,
   inputValidation |-> NoResult, tokens |-> <<>>, normalizedAmounts |-> <<>>,
   classificationResult |-> NoClassification, response |-> NoResponse, outcome |-> "none"]

NewCalls ==
  { NewCall(text, options, answer) :
      text \in CallTexts, options \in { MakeOptions(70, ai) : ai \in BOOLEAN },
      answer \in CallAnswers }

\* A call that was never made.
IdleCall == [NewCall(EmptyText, MakeOptions(70, FALSE), RuleBasedReasoning) EXCEPT !.pc = "idle"]

localsShared(cs, i) ==
  LET j == CHOOSE j \in CallIds : j # i
  IN  IF cs[j].normalizedAmounts # <<>>
      THEN [cs[i] EXCEPT !.normalizedAmounts = cs[j].normalizedAmounts]
      ELSE cs[i]

\* The local variables of call i.
locals(cs, i) == cs[i]

callInputGate(c) ==
  LET validation == validateInput(FALSE, NoFile, c.text, c.options)
  IN  IF rejectsInput(validation)
      THEN [c EXCEPT !.inputValidation = validation,
                     !.response = createErrorResponse(validation),
                     !.outcome = "returned", !.pc = "done"]
      ELSE [c EXCEPT !.inputValidation = validation, !.pc = "validated"]

callExtractAndNormalize(c) ==
  LET extracted == extractTokensFromText(c.text)
      normalized == normalizeAmounts(extracted)
  IN  IF normalized = <<>>
      THEN [c EXCEPT !.tokens = extracted, !.normalizedAmounts = normalized,
                     !.response = noAmountsResponse(-1, Len(extracted), c.inputValidation),
                     !.outcome = "returned", !.pc = "done"]
      ELSE [c EXCEPT !.tokens = extracted, !.normalizedAmounts = normalized,
                     !.pc = "normalized"]

callClassifyStart(c) ==
  IF c.options.enableAiClassification /\ enableFallback
  THEN [c EXCEPT !.pc = "ai_call"]
  ELSE [c EXCEPT !.classificationResult =
                   performRuleBasedClassification(c.text, c.normalizedAmounts),
                 !.pc = "classified"]

\* The attempts are answered: a usable answer is adopted, an unusable one
\* at every attempt ends in the rule-based classification.
callAIAnswers(c) ==
  IF parseThrows(c.answer)
  THEN [c EXCEPT !.classificationResult =
                   performRuleBasedClassification(c.text, c.normalizedAmounts),
                 !.pc = "classified"]
  ELSE [c EXCEPT !.classificationResult = aiClassificationResult(c.answer, c.normalizedAmounts),
                 !.pc = "classified"]

callOutputGate(c) ==
  LET built == DocumentResponse(
                 detectCurrency(c.tokens), c.classificationResult.amounts, "ok",
                 ProcessingDetails(-1, calculateAverageConfidence(c.normalizedAmounts),
                                   c.classificationResult.confidence, Len(c.tokens), <<>>),
                 c.inputValidation, SelectSeq(c.inputValidation.violations, isWarning))
      validation == validateOutput(built)
  IN  [c EXCEPT !.response = [built EXCEPT
                                !.guardrailsResult = validation,
                                !.warnings = @ \o SelectSeq(validation.violations, isWarning)],
                !.outcome = "returned", !.pc = "done"]

\* The step call i takes next, from its own locals.
stepCall(cs, i) ==
  CASE locals(cs, i).pc = "received" -> callInputGate(locals(cs, i))
    [] locals(cs, i).pc = "validated" -> callExtractAndNormalize(locals(cs, i))
    [] locals(cs, i).pc = "normalized" -> callClassifyStart(locals(cs, i))
    [] locals(cs, i).pc = "ai_call" -> callAIAnswers(locals(cs, i))
    [] locals(cs, i).pc = "classified" -> callOutputGate(locals(cs, i))
    [] OTHER -> cs[i]

CallStep(i, at) ==
  /\ calls[i].pc = at
  /\ calls' = [calls EXCEPT ![i] = stepCall(calls, i)]
  /\ UNCHANGED << enableFallback, pc, req, inputSubs, inputValidation, ocrResult, tokens,
                  normalizedAmounts, attempt, aiCalls, abandoned, classificationResult,
                  aiSafetySubs, aiSafetyValidation, outputSubs, outputValidation,
                  processingValidation, response, outcome, trace >>

CallInputGate == \E i \in CallIds : CallStep(i, "received")
CallExtractAndNormalize == \E i \in CallIds : CallStep(i, "validated")
CallClassifyStart == \E i \in CallIds : CallStep(i, "normalized")
CallAIAnswers == \E i \in CallIds : CallStep(i, "ai_call")
CallOutputGate == \E i \in CallIds : CallStep(i, "classified")

ConcurrentInit ==
  /\ enableFallback \in BOOLEAN
  /\ calls \in [CallIds -> NewCalls]
  /\ pc = "idle"
  /\ Cleared

ConcurrentNext ==
  \/ CallInputGate
  \/ CallExtractAndNormalize
  \/ CallClassifyStart
  \/ CallAIAnswers
  \/ CallOutputGate

ConcurrentSpec == ConcurrentInit /\ [][ConcurrentNext]_vars

(***************************************************************************)
(* processText from token extraction on, with the AI disabled, on texts    *)
(* that mention their amounts in any order of the three written styles.    *)
(***************************************************************************)
MaxOrderMentions == 3

OrderMentions ==
  { Mention("kv", "Total", 10000), Mention("pipe", "Due", 2000), Mention("bare", "Visit", 500) }

OrderTexts ==
  { MakeText("normal", {}, d) :
      d \in UNION { [1..n -> OrderMentions] : n \in 1..MaxOrderMentions } }

ReadingOrderInit ==
  /\ enableFallback \in BOOLEAN
  /\ calls = NoCalls
  /\ \E text \in OrderTexts :
       LET options == MakeOptions(70, FALSE)
       IN  /\ req = [kind |-> "text", text |-> text, file |-> NoFile, options |-> options]
           /\ inputSubs = inputSubResults(FALSE, NoFile, text, options)
           /\ inputValidation = validateInput(FALSE, NoFile, text, options)
  /\ pc = "validated"
  /\ trace = <<"input_gate">>
  /\ ocrResult = NoOcr
  /\ tokens = <<>>
  /\ normalizedAmounts = <<>>
  /\ attempt = 0
  /\ aiCalls = 0
  /\ abandoned = 0
  /\ classificationResult = NoClassification
  /\ aiSafetySubs = <<>>
  /\ aiSafetyValidation = NoResult
  /\ outputSubs = <<>>
  /\ outputValidation = NoResult
  /\ processingValidation = NoResult
  /\ response = NoResponse
  /\ outcome = "none"

ReadingOrderNext ==
  \/ ExtractAndNormalize
  \/ ClassifyStart
  \/ OutputGate

ReadingOrderSpec == ReadingOrderInit /\ [][ReadingOrderNext]_vars

(***************************************************************************)
(* The input gate on texts that carry the phrases the request schema of    *)
(* the HTTP layer screens for (containsSuspiciousPatterns): processText is *)
(* called directly, as the service's callers and tests do.                 *)
(***************************************************************************)
SchemaPhrases == {"ignore previous instructions", "jailbreak", "<script", "eval (",
                  "union select", "drop table", "insert into",
                  "free money", "click here", "congratulations"}

ScreenTexts ==
  { MakeText(l, ph, d) : l \in {"normal", "too_long"},
                         ph \in { S \in SUBSET SchemaPhrases : Cardinality(S) <= MaxPhrases },
                         d \in Documents(1) }

ScreenInit ==
  /\ enableFallback \in BOOLEAN
  /\ calls = NoCalls
  /\ \E text \in ScreenTexts, options \in OptionsSet :
       req = [kind |-> "text", text |-> text, file |-> NoFile, options |-> options]
  /\ pc = "received"
  /\ inputSubs = <<>>
  /\ inputValidation = NoResult
  /\ trace = <<>>
  /\ ocrResult = NoOcr
  /\ tokens = <<>>
  /\ normalizedAmounts = <<>>
  /\ attempt = 0
  /\ aiCalls = 0
  /\ abandoned = 0
  /\ classificationResult = NoClassification
  /\ aiSafetySubs = <<>>
  /\ aiSafetyValidation = NoResult
  /\ outputSubs = <<>>
  /\ outputValidation = NoResult
  /\ processingValidation = NoResult
  /\ response = NoResponse
  /\ outcome = "none"

ScreenNext == InputGate

ScreenSpec == ScreenInit /\ [][ScreenNext]_vars

(***************************************************************************)
(* Properties.                                                             *)
(***************************************************************************)
Stages == Range(trace)

\* Position of a stage in the trace, 0 when it did not run.
StageIndex(stage) ==
  IF stage \in Stages THEN CHOOSE i \in 1..Len(trace) : trace[i] = stage ELSE 0

Returned == pc = "done" /\ outcome = "returned"

hasBlocking(violations) ==
  \E i \in 1..Len(violations) : violations[i].severity \in {"error", "critical"}

\* The greatest risk level among results, LOW for none.
MaxRisk(results) ==
  CHOOSE level \in RiskLevel :
    /\ level = "low" \/ \E i \in 1..Len(results) : results[i].riskLevel = level
    /\ \A i \in 1..Len(results) : riskOrder(results[i].riskLevel) <= riskOrder(level)

\* The gates that ran for the request, in the order processImage lists them.
GatesRun ==
  (IF inputValidation # NoResult THEN <<inputValidation>> ELSE <<>>)
  \o (IF outputValidation # NoResult THEN <<outputValidation>> ELSE <<>>)
  \o (IF aiSafetyValidation # NoResult THEN <<aiSafetyValidation>> ELSE <<>>)

\* Every result a gate of GuardrailsService has returned.
GateResults ==
  { r \in {inputValidation, outputValidation, aiSafetyValidation, processingValidation} :
      r # NoResult }

\* C1: when the input gate recommends REJECT, the call has returned an
\* error response with no amounts and the input gate's result attached, and
\* no later stage has run: only the input gate is in the trace, no AI call.
C1_RejectIsTerminal ==
  (inputValidation # NoResult /\ inputValidation.recommendedAction = "reject") =>
    /\ Returned
    /\ response.status = "error"
    /\ response.amounts = <<>>
    /\ response.guardrailsResult = inputValidation
    /\ trace = <<"input_gate">>
    /\ aiCalls = 0
    /\ classificationResult = NoClassification
    /\ outputValidation = NoResult /\ aiSafetyValidation = NoResult

C1_Witness ==
  /\ Returned
  /\ req.kind = "text"
  /\ inputValidation.recommendedAction = "reject"
  /\ response.status = "error"

\* C2: when extraction has yielded zero tokens, or normalization zero
\* amounts, the call has returned (not thrown) status no_amounts_found with
\* no amounts, and neither the classifier nor the output gate has run.
TokensYielded == "extract" \in Stages \/ ("ocr" \in Stages /\ ocrResult # NoOcr)

C3_BoundedRetriesThenFallback ==
  /\ aiCalls <= AI_MAX_RETRIES
  /\ (attempt > 0 /\ pc \notin {"ai_call", "ai_backoff"}) =>
       /\ attempt <= AI_MAX_RETRIES
       /\ (attempt = AI_MAX_RETRIES =>
             /\ outcome # "thrown"
             /\ classificationResult.fallbackUsed
             /\ Len(classificationResult.amounts) = Len(normalizedAmounts)
             /\ \A i \in 1..Len(normalizedAmounts) :
                  /\ classificationResult.amounts[i].value = normalizedAmounts[i].normalized
                  /\ classificationResult.amounts[i].source[3] = "rule-based")

C3_Witness ==
  /\ pc = "classified"
  /\ req.options.enableAiClassification
  /\ attempt = AI_MAX_RETRIES
  /\ aiCalls = AI_MAX_RETRIES
  /\ classificationResult.fallbackUsed

\* C4: every call of classifyAmounts that has an AI attempt in flight or is
\* waiting to retry eventually has its classification result, even when no
\* attempt is ever answered.
C4_ClassificationTerminates ==
  (pc \in {"ai_call", "ai_backoff"}) ~> (pc = "classified")

C4_Witness ==
  /\ pc = "classified"
  /\ attempt = AI_MAX_RETRIES
  /\ abandoned = AI_MAX_RETRIES
  /\ classificationResult.fallbackUsed

\* The rules validateBusinessLogic reports.
BusinessRules == {"unreasonable_amounts", "duplicate_amount_types",
                  "amount_arithmetic_mismatch", "low_confidence_amounts"}

hasBusinessViolation(violations) ==
  \E i \in 1..Len(violations) : violations[i].rule \in BusinessRules

\* A full-success response of processImage: its guardrailsResult is the
\* merge by combineGuardrailResults of the gates that ran.
CombinedReturned == Returned /\ IsImage /\ "output_gate" \in Stages

\* C5 (amended): a gate's riskLevel is the maximum of its sub-results'
\* riskLevels, except that the output gate's is raised to at least MEDIUM
\* when the business-logic check reports a violation; the riskLevel merged
\* by combineGuardrailResults is the maximum over the gates that ran, and
\* merging [LOW/passed, HIGH/failed by an ERROR, CRITICAL/failed by a
\* CRITICAL] gives CRITICAL, passed = false and REJECT.
C5_MergedRiskIsMaximum ==
  /\ inputValidation # NoResult => inputValidation.riskLevel = MaxRisk(inputSubs)
  /\ aiSafetyValidation # NoResult => aiSafetyValidation.riskLevel = MaxRisk(aiSafetySubs)
  /\ outputValidation # NoResult =>
       outputValidation.riskLevel =
         IF hasBusinessViolation(outputValidation.violations)
         THEN MaxRisk(outputSubs \o <<[riskLevel |-> "medium"]>>)
         ELSE MaxRisk(outputSubs)
  /\ CombinedReturned =>
       /\ response.guardrailsResult.riskLevel = MaxRisk(GatesRun)
       /\ (\E i, j, k \in 1..Len(GatesRun) :
             /\ GatesRun[i].riskLevel = "low" /\ GatesRun[i].passed
             /\ GatesRun[j].riskLevel = "high" /\ hasSeverity(GatesRun[j].violations, "error")
             /\ GatesRun[k].riskLevel = "critical"
             /\ hasSeverity(GatesRun[k].violations, "critical")) =>
            /\ response.guardrailsResult.riskLevel = "critical"
            /\ ~response.guardrailsResult.passed
            /\ response.guardrailsResult.recommendedAction = "reject"

C5_Witness ==
  /\ CombinedReturned
  /\ inputValidation.riskLevel = "low" /\ inputValidation.passed
  /\ outputValidation.riskLevel = "high" /\ ~outputValidation.passed
  /\ hasSeverity(outputValidation.violations, "error")
  /\ aiSafetyValidation.riskLevel = "critical" /\ ~aiSafetyValidation.passed
  /\ hasSeverity(aiSafetyValidation.violations, "critical")
  /\ response.guardrailsResult.riskLevel = "critical"
  /\ ~response.guardrailsResult.passed
  /\ response.guardrailsResult.recommendedAction = "reject"

\* C5 as stated: every gate's riskLevel equals the maximum riskLevel of the
\* sub-results it merged, the output gate included.
C5_AsStated ==
  /\ inputValidation # NoResult => inputValidation.riskLevel = MaxRisk(inputSubs)
  /\ aiSafetyValidation # NoResult => aiSafetyValidation.riskLevel = MaxRisk(aiSafetySubs)
  /\ outputValidation # NoResult => outputValidation.riskLevel = MaxRisk(outputSubs)
  /\ CombinedReturned => response.guardrailsResult.riskLevel = MaxRisk(GatesRun)

ActionByRule(r) ==
  IF \E i \in 1..Len(r.violations) : r.violations[i].severity = "critical" THEN "reject"
  ELSE IF (\E i \in 1..Len(r.violations) : r.violations[i].severity = "error")
          /\ r.riskLevel = "high" THEN "manual_review"
  ELSE IF r.riskLevel = "high"
          \/ ((\E i \in 1..Len(r.violations) : r.violations[i].severity = "error")
              /\ r.riskLevel = "medium") THEN "proceed_with_caution"
  ELSE "proceed"

\* C7: the recommendedAction of every result a gate returns is the one the
\* rule gives for its violations and riskLevel (REJECT, MANUAL_REVIEW,
\* PROCEED_WITH_CAUTION, PROCEED), whatever the sub-validators recommended.
C7_ActionFromViolationsAndRisk ==
  \A r \in GateResults : r.recommendedAction = ActionByRule(r)

C7_Witness ==
  /\ inputValidation # NoResult
  /\ inputValidation.recommendedAction = "manual_review"
  /\ \A i \in 1..Len(inputSubs) : inputSubs[i].recommendedAction = "proceed"

\* The phrase of the claim, its words separated by one or by more blanks.
IgnorePreviousInstructions ==
  {"ignore previous instructions", "ignore  previous  instructions"}

InputGateRanOnText == req.kind = "text" /\ "input_gate" \in Stages

FullSuccess == Returned /\ response.status = "ok" /\ "output_gate" \in Stages

\* C9: the guardrailsResult of every full-success response holds every
\* violation of every gate that ran for the request, at a riskLevel no lower
\* than that of any of those gates.
C9_ResponseMergesAllGates ==
  FullSuccess =>
    \A g \in 1..Len(GatesRun) :
      /\ \A i \in 1..Len(GatesRun[g].violations) :
           \E j \in 1..Len(response.guardrailsResult.violations) :
             response.guardrailsResult.violations[j] = GatesRun[g].violations[i]
      /\ riskOrder(response.guardrailsResult.riskLevel) >= riskOrder(GatesRun[g].riskLevel)

\* C10: in a run that reached classification and returned a full response,
\* the AI-safety gate ran, between classification and the output gate,
\* exactly when the result came from the AI path.
C10_AISafetyIffAIPath ==
  FullSuccess =>
    (("ai_safety" \in Stages
      /\ StageIndex("classify") < StageIndex("ai_safety")
      /\ StageIndex("ai_safety") < StageIndex("output_gate"))
     <=> (req.options.enableAiClassification /\ ~classificationResult.fallbackUsed))

\* Index of the first amount of a type in a list of amounts, 0 for none.
FirstOfType(amounts, type) ==
  IF \E i \in 1..Len(amounts) : amounts[i].type = type
  THEN CHOOSE i \in 1..Len(amounts) :
         amounts[i].type = type /\ \A j \in 1..Len(amounts) : amounts[j].type = type => i <= j
  ELSE 0

\* TOTAL_BILL, PAID and DUE are all present and differ by more than 0.02.
Mismatch(amounts) ==
  /\ FirstOfType(amounts, "total_bill") # 0
  /\ FirstOfType(amounts, "paid") # 0
  /\ FirstOfType(amounts, "due") # 0
  /\ LET gap == amounts[FirstOfType(amounts, "total_bill")].value
                - amounts[FirstOfType(amounts, "paid")].value
                - amounts[FirstOfType(amounts, "due")].value
     IN  gap > 2 \/ gap < -2

Classified == classificationResult # NoClassification

\* The amounts as the path classified them, before any consistency step.
PathAssigned ==
  IF classificationResult.fallbackUsed
  THEN classifyAll(normalizedAmounts, SourceText)
  ELSE parseAIResponse(classificationResult.reasoning, normalizedAmounts)

\* C11: in the result of either path, when TOTAL_BILL, PAID and DUE are
\* present and differ by more than 0.02 the DUE amount has 0.7 times the
\* confidence its path assigned, and every other confidence is as assigned;
\* without such a mismatch every confidence is as assigned.
C11_DueReducedOnEitherPath ==
  Classified =>
    /\ Len(classificationResult.amounts) = Len(PathAssigned)
    /\ \A i \in 1..Len(classificationResult.amounts) :
         classificationResult.amounts[i].confidence =
           IF Mismatch(PathAssigned) /\ i = FirstOfType(PathAssigned, "due")
           THEN (PathAssigned[i].confidence * 7) \div 10
           ELSE PathAssigned[i].confidence


mismatchReported(validation) ==
  \E i \in 1..Len(validation.violations) :
    validation.violations[i].rule = "amount_arithmetic_mismatch"

\* C12: the output gate reports amount_arithmetic_mismatch, at severity
\* WARNING, exactly when the response has a TOTAL_BILL, a PAID and a DUE
\* amount with |total - paid - due| > 0.02; a response whose only violation
\* is this one has passed = true, status ok and its amounts unchanged.
C12_MismatchIsWarningOnly ==
  outputValidation # NoResult =>
    /\ mismatchReported(outputValidation) <=> Mismatch(response.amounts)
    /\ \A i \in 1..Len(outputValidation.violations) :
         outputValidation.violations[i].rule = "amount_arithmetic_mismatch" =>
           outputValidation.violations[i].severity = "warning"
    /\ (mismatchReported(outputValidation) /\ Len(outputValidation.violations) = 1) =>
         /\ outputValidation.passed
         /\ response.guardrailsResult.passed
         /\ response.status = "ok"
         /\ response.amounts = classificationResult.amounts

\* C13: in every response of processText or processImage, on either
\* classification path and whatever the AI answered, every amount's value
\* lies in [0.01, 10,000,000] and is the normalized value of one of the
\* amounts normalization produced for the request.
C13_ValuesComeFromNormalization ==
  response # NoResponse =>
    \A i \in 1..Len(response.amounts) :
      /\ response.amounts[i].value >= MIN_AMOUNT
      /\ response.amounts[i].value <= MAX_AMOUNT
      /\ \E j \in 1..Len(normalizedAmounts) :
           normalizedAmounts[j].normalized = response.amounts[i].value

C13_Witness ==
  /\ Returned
  /\ ~classificationResult.fallbackUsed
  /\ response.amounts # <<>>
  /\ \E i \in 1..Len(tokens) : tokens[i].value < MIN_AMOUNT
  /\ Len(classificationResult.reasoning.classifications) > Len(response.amounts)

InUnit(confidence) == confidence >= 0 /\ confidence <= 1000

\* C14: every confidence of a returned response lies in [0,1]: each
\* amount's, normalizationConfidence, classificationConfidence and the
\* guardrailsResult's, whatever the AI answered.
C14_ConfidencesInUnitInterval ==
  Returned =>
    /\ \A i \in 1..Len(response.amounts) : InUnit(response.amounts[i].confidence)
    /\ InUnit(response.processingDetails.normalizationConfidence)
    /\ InUnit(response.processingDetails.classificationConfidence)
    /\ response.guardrailsResult.confidence >= 0
    /\ response.guardrailsResult.confidence <= GuardrailOne

C16_AIDisabledMeansRuleBased ==
  ("classify" \in Stages /\ "exception" \notin Stages
     /\ ~req.options.enableAiClassification) =>
    /\ aiCalls = 0
    /\ attempt = 0
    /\ pc \notin {"ai_call", "ai_backoff"}
    /\ classificationResult = performRuleBasedClassification(SourceText, normalizedAmounts)
    /\ classificationResult.fallbackUsed

C16_Witness ==
  /\ pc = "classified"
  /\ ~req.options.enableAiClassification
  /\ enableFallback
  /\ aiCalls = 0
  /\ classificationResult.fallbackUsed
  /\ classificationResult.amounts # <<>>

\* The file type a filename extension implies.
ExtensionType(ext) ==
  CASE ext \in {".jpg", ".jpeg"} -> "jpeg"
    [] ext = ".png" -> "png"
    [] ext = ".pdf" -> "pdf"
    [] OTHER -> "other"

\* C17: whenever the type detected from the file's magic number differs
\* from the type its filename extension implies (PDF magic bytes in a file
\* named .jpg), the file validator reports a CRITICAL violation and the
\* input gate recommends REJECT.
C17_SignatureMismatchIsCritical ==
  (IsImage /\ "input_gate" \in Stages
     /\ detectFileType(req.file) # "null"
     /\ detectFileType(req.file) # ExtensionType(req.file.ext)) =>
    /\ \E k \in 1..Len(inputSubs) : hasSeverity(inputSubs[k].violations, "critical")
    /\ inputValidation.recommendedAction = "reject"

TokenNormalized == pc = "token_normalized"

WrittenOf(whole, decimals) == TokenNormalized /\ tokens[1].value = Written(whole, decimals)

C20_LateResponseNeverUsed ==
  [][ /\ abandoned' > abandoned =>
           /\ pc = "ai_call"
           /\ abandoned' = abandoned + 1
           /\ attempt' = attempt + 1
           /\ \/ pc' = "ai_backoff" /\ classificationResult' = classificationResult
              \/ pc' = "classified" /\ classificationResult'.fallbackUsed
      /\ (abandoned' < abandoned /\ pc' = pc) =>
           /\ classificationResult' = classificationResult
           /\ attempt' = attempt
           /\ aiCalls' = aiCalls
           /\ response' = response
           /\ outcome' = outcome ]_vars

C20_Witness ==
  /\ pc = "classified"
  /\ ~classificationResult.fallbackUsed
  /\ classificationResult.amounts # <<>>
  /\ attempt = AI_MAX_RETRIES - 1
  /\ abandoned > 0
  /\ abandoned < attempt

\* The call as it ends when it is the only call made.
RECURSIVE RunAlone(_, _)
RunAlone(cs, i) ==
  IF cs[i].pc = "done" THEN cs[i] ELSE RunAlone([cs EXCEPT ![i] = stepCall(cs, i)], i)

Alone(c, i) ==
  RunAlone([j \in CallIds |-> IF j = i THEN NewCall(c.text, c.options, c.answer) ELSE IdleCall], i)

C21_NoJsonFallsBack ==
  [][AIRespondsUnusable =>
       /\ pc' = "classified"
       /\ classificationResult'.fallbackUsed
       /\ outcome' # "thrown"]_vars

\* The amounts of the rule-based path before consistency enforcement.
BeforeConsistency == classifyAll(normalizedAmounts, SourceText)

\* classifyAmounts has just returned a rule-based result.
RuleBasedResult == pc = "classified" /\ classificationResult.fallbackUsed

\* C22: consistency enforcement leaves the amounts as classified, in number
\* and order, with their type, value and source, and with the confidence of
\* every amount that is not DUE; it changes the confidence of at most one
\* DUE amount.
C22_ConsistencyChangesOnlyDueConfidence ==
  RuleBasedResult =>
    /\ Len(classificationResult.amounts) = Len(BeforeConsistency)
    /\ \A i \in 1..Len(classificationResult.amounts) :
         /\ classificationResult.amounts[i].type = BeforeConsistency[i].type
         /\ classificationResult.amounts[i].value = BeforeConsistency[i].value
         /\ classificationResult.amounts[i].source = BeforeConsistency[i].source
         /\ classificationResult.amounts[i].type # "due" =>
              classificationResult.amounts[i].confidence = BeforeConsistency[i].confidence
    /\ Cardinality({ i \in 1..Len(classificationResult.amounts) :
                       classificationResult.amounts[i].confidence
                         # BeforeConsistency[i].confidence }) <= 1

C22_Witness ==
  /\ RuleBasedResult
  /\ \E i \in 1..Len(classificationResult.amounts) :
       /\ classificationResult.amounts[i].type = "due"
       /\ classificationResult.amounts[i].confidence < BeforeConsistency[i].confidence
       /\ classificationResult.amounts[i].value = BeforeConsistency[i].value

CountSeverity(violations, sev) ==
  Cardinality({ i \in 1..Len(violations) : violations[i].severity = sev })

\* max(0, 1.0 - 0.5 c - 0.3 e - 0.1 w), in the unit of GuardrailOne.
ByPenalties(violations) ==
  Max2(0, 600 - 300 * CountSeverity(violations, "critical")
              - 180 * CountSeverity(violations, "error")
              - 60 * CountSeverity(violations, "warning"))

\* C23: the confidence of every result a gate returns, and of the
\* guardrailsResult attached to a response, is max(0, 1.0 - 0.5 c - 0.3 e
\* - 0.1 w) for the numbers c, e, w of CRITICAL, ERROR and WARNING
\* violations in its violations list.
C23_ConfidenceFromPenalties ==
  /\ \A r \in GateResults : r.confidence = ByPenalties(r.violations)
  /\ response # NoResponse =>
       response.guardrailsResult.confidence = ByPenalties(response.guardrailsResult.violations)

\* Position in the text of the first mention of the amount, 0 for none.
MentionIndex(text, cents) ==
  IF \E k \in 1..Len(text.mentions) : text.mentions[k].cents = cents
  THEN CHOOSE k \in 1..Len(text.mentions) :
         /\ text.mentions[k].cents = cents
         /\ \A l \in 1..(k - 1) : text.mentions[l].cents # cents
  ELSE 0

DistinctAmounts(text) ==
  \A k, l \in 1..Len(text.mentions) :
    k # l => text.mentions[k].cents # text.mentions[l].cents

\* C24: for a text that mentions each amount once, the tokens extracted
\* and the amounts of the rule-based response are in reading order: an
\* amount that occurs earlier in the text comes earlier, whichever of the
\* key-value, pipe and standalone strategies captured it.
C24_TokensInReadingOrder ==
  (req.kind = "text" /\ "extract" \in Stages /\ DistinctAmounts(req.text)) =>
    /\ \A i, j \in 1..Len(tokens) :
         i < j => MentionIndex(req.text, tokens[i].value) < MentionIndex(req.text, tokens[j].value)
    /\ (Returned /\ classificationResult.fallbackUsed) =>
         \A i, j \in 1..Len(response.amounts) :
           i < j => MentionIndex(req.text, response.amounts[i].value)
                      < MentionIndex(req.text, response.amounts[j].value)

\* C25: a rule-based result of classifyAmounts has exactly one AmountDetail
\* per NormalizedAmount, in the same order, with that amount's normalized
\* value and a type of the category enum; for no amounts the rule-based
\* classification returns no amounts and confidence 0.
C25_RuleBasedIsOnePerAmount ==
  RuleBasedResult =>
    /\ Len(classificationResult.amounts) = Len(normalizedAmounts)
    /\ \A i \in 1..Len(normalizedAmounts) :
         /\ classificationResult.amounts[i].value = normalizedAmounts[i].normalized
         /\ classificationResult.amounts[i].type \in AmountType
    /\ performRuleBasedClassification(SourceText, <<>>).amounts = <<>>
    /\ performRuleBasedClassification(SourceText, <<>>).confidence = 0

C25_Witness ==
  /\ RuleBasedResult
  /\ attempt = AI_MAX_RETRIES
  /\ Len(normalizedAmounts) >= 2
  /\ Len(tokens) > Len(normalizedAmounts)
  /\ \E i \in 1..Len(classificationResult.amounts) : classificationResult.amounts[i].type = "due"

(***************************************************************************)
(* C26: the input gate reports a CRITICAL violation for every text that    *)
(* hits one of the listed suspicious-pattern classes: prompt-injection     *)
(* phrases, script/eval markers, SQL-injection markers ("drop table",      *)
(* "union select"), a $ followed by seven or more digits, scam phrasing    *)
(* ("free money", "click here").                                           *)
(***************************************************************************)
ListedSuspiciousPhrases ==
  {"ignore previous instructions", "<script", "eval (",
   "union select", "drop table", "free money", "click here"}

HasLargeDollarFigure(text) ==
  \E i \in 1..Len(text.mentions) : text.mentions[i].cents >= 100000000

HitsListedClass(text) ==
  text.phrases \cap ListedSuspiciousPhrases # {} \/ HasLargeDollarFigure(text)

HasCritical(violations) ==
  \E i \in 1..Len(violations) : violations[i].severity = "critical"

C26_ListedPatternsAreCritical ==
  (req.kind = "text" /\ trace # <<>> /\ HitsListedClass(req.text))
    => HasCritical(inputValidation.violations)

\* The part that holds: the five patterns of detectSuspiciousPatterns are CRITICAL.
C26_DetectedPatternsAreCritical ==
  (req.kind = "text" /\ trace # <<>> /\ detectSuspiciousPatterns(req.text) # <<>>)
    => HasCritical(inputValidation.violations)

(***************************************************************************)
(* C27: every response with status = ok returned by processText or         *)
(* processImage contains at least one amount, on both classification paths *)
(* and whatever the AI answered.                                           *)
(***************************************************************************)
C27_OkHasAmounts ==
  (outcome = "returned" /\ response.status = "ok") => response.amounts # <<>>

\* The part that holds: a rule-based result is never empty in a returned response.
C27_RuleBasedOkHasAmounts ==
  (outcome = "returned" /\ response.status = "ok" /\ classificationResult.fallbackUsed)
    => response.amounts # <<>>

(***************************************************************************)
(* C28: no response with status = ok carries recommendedAction = REJECT;   *)
(* whenever a gate that ran for the request recommends REJECT, the request *)
(* ends with status = error and no amounts.                                *)
(***************************************************************************)
RequestGates == << inputValidation, aiSafetyValidation, outputValidation >>

SomeGateRejects ==
  \E i \in 1..Len(RequestGates) : RequestGates[i].recommendedAction = "reject"

C28_RejectMeansError ==
  (outcome = "returned")
    => /\ response.status = "ok" => response.guardrailsResult.recommendedAction # "reject"
       /\ SomeGateRejects => (response.status = "error" /\ response.amounts = <<>>)

\* The part that holds: a REJECT of the input gate ends the request with an error.
C28_InputRejectMeansError ==
  (outcome = "returned" /\ inputValidation.recommendedAction = "reject")
    => (response.status = "error" /\ response.amounts = <<>>)

(***************************************************************************)
(* C29: no document text is sent to the AI unless it passed the input      *)
(* gate's text screening: an AI call is made only on text on which         *)
(* validateText was run and reported no CRITICAL suspicious-pattern        *)
(* violation, text obtained from OCR included.                             *)
(***************************************************************************)
\* The text handed to validateInput: processImage passes { filename, options } only.
InputGateText == IF IsImage THEN EmptyText ELSE req.text

ValidateTextRanOn(text) ==
  /\ InputGateText = text
  /\ \E i \in 1..Len(inputSubs) : inputSubs[i] = validateText(text)

C29_AiOnlyOnScreenedText ==
  aiCalls > 0
    => /\ ValidateTextRanOn(SourceText)
       /\ ~HasCritical(validateText(SourceText).violations)

\* The part that holds: processText sends only screened text to the AI.
C29_TextRequestsAreScreened ==
  (aiCalls > 0 /\ ~IsImage)
    => /\ ValidateTextRanOn(req.text)
       /\ ~HasCritical(validateText(req.text).violations)

(***************************************************************************)
(* C30: every result returned by a GuardrailsService gate with             *)
(* passed = false has a recommendedAction other than PROCEED: every ERROR  *)
(* or CRITICAL violation comes with a riskLevel of at least MEDIUM.        *)
(***************************************************************************)
C30_FailedGateNeverProceeds ==
  \A r \in GateResults :
    ~r.passed => /\ r.recommendedAction # "proceed"
                 /\ r.riskLevel \in {"medium", "high", "critical"}

C30_Witness ==
  \E r \in GateResults :
    /\ ~r.passed
    /\ ~HasCritical(r.violations)
    /\ r.riskLevel = "medium"
    /\ r.recommendedAction = "proceed_with_caution"
====
